---- MODULE Spec2Model ----
(***************************************************************************)
(* Plugin manager of rns (src/src/lib/pman.rs).                            *)
(*                                                                         *)
(* The Rust side keeps the transaction slot (CURRENT_PLUGIN,               *)
(* PLUGIN_CONFIG); the registry is the Lua table _G.plugins of the host,   *)
(* which the Rust functions read and write only through Lua chunks handed  *)
(* to run_cmd.  The model gives both, the plugin directories on disk and   *)
(* the host's runtime path, and one action per exported function; the Lua  *)
(* chunks are translated statement by statement.                           *)
(*                                                                         *)
(* Strings are sequences of atoms (format! is concatenation); a pointer    *)
(* argument is NullPtr or Ptr(s); an Option is None or Some(x).            *)
(***************************************************************************)
EXTENDS Integers, Sequences, FiniteSets, TLC

\* Bound: number of statements one open transaction may accumulate.
MaxStmts == 2

None == << >>
Some(x) == << x >>

NullPtr == << >>
Ptr(s) == << s >>

\* Names a caller may register, and names a caller may open a transaction for
\* (the empty string is a valid, non-null C string).
PluginNames == {"a", "b"}
Keys == {"", "a", "b"}
Urls == {"u1", "u2"}

\* Outcome of do_cmdline_cmd for a command: "ok" the host ran it and returned 0,
\* "fail" the host did not run it and returned non-zero.
ExecOutcomes == {"ok", "fail"}

\* Config texts a caller hands to configure_plugin directly.
ConfigTexts == { << >>, <<"x">>, <<"\n", "x">>, <<"]===]">> }

RECURSIVE Flatten(_)
Flatten(ss) == IF ss = << >> THEN << >> ELSE Head(ss) \o Flatten(Tail(ss))

Atoms(text) == { text[i] : i \in 1..Len(text) }

\* extract_c_string: a null pointer is an error, anything else a String.
extract_c_string(ptr) == [ok |-> ptr # NullPtr, val |-> IF ptr # NullPtr THEN ptr[1] ELSE ""]

\* run_cmd: Ok(()) exactly when do_cmdline_cmd returned 0.
run_cmd(x) == x = "ok"

\* The Lua long-bracket literal [===[ text ]===] of configure_plugin's chunk:
\* a text holding the closing bracket ends the literal early and the chunk no
\* longer parses; a newline right after the opening bracket is skipped.
LuaLongString(text) ==
    IF "]===]" \in Atoms(text) THEN [ok |-> FALSE, val |-> << >>]
    ELSE IF text # << >> /\ Head(text) = "\n" THEN [ok |-> TRUE, val |-> Tail(text)]
    ELSE [ok |-> TRUE, val |-> text]

\* _G.plugins[name] = { url = url, enabled = true }: a fresh table, so the
\* fields config and path of an older entry are gone (nil).
LuaRegister(tbl, name, url) ==
    [tbl EXCEPT ![name] = Some([url |-> url, enabled |-> TRUE, config |-> None, path |-> None])]

\* A set_config that appends to the config the entry has.
LuaSetConfig_append(tbl, name, text) ==
    IF tbl[name] # None
    THEN [tbl EXCEPT ![name] = Some([tbl[name][1] EXCEPT
             !.config = IF @ # None THEN Some(@[1] \o text) ELSE Some(text)])]
    ELSE tbl

\* A set_config that puts a fresh table under the name.
LuaSetConfig_fresh(tbl, name, text) ==
    [tbl EXCEPT ![name] = Some([url |-> "", enabled |-> TRUE, config |-> Some(text), path |-> None])]

\* if _G.plugins and _G.plugins[name] then _G.plugins[name].config = text end
LuaSetConfig(tbl, name, text) ==
    IF tbl[name] # None
    THEN [tbl EXCEPT ![name] = Some([tbl[name][1] EXCEPT !.config = Some(text)])]
    ELSE tbl

\* Statement templates of the add_* functions.
ServerStmt(server) == <<"require('lspconfig').", server, ".setup({});\n">>
OptionStmt(server, option, value) ==
    <<"require('lspconfig').", server, ".setup({ settings = { ['", server, "'] = { ",
      option, " = '", value, "' } } });\n">>
MappingStmt(plugin, mode, key, action) ==
    <<"require('", plugin, "').setup({ defaults = { mappings = { ", mode, " = { ['",
      key, "'] = '", action, "' } } } });\n">>
KeymapStmt(mode, key, command) ==
    <<"vim.keymap.set('", mode, "', '", key, "', '<cmd>Telescope ", command, "<CR>');\n">>

VARIABLES
    plugins,         \* _G.plugins: key -> None (no entry) or Some(entry)
    CURRENT_PLUGIN,  \* Option<String>
    PLUGIN_CONFIG,   \* Option<String>
    disk,            \* names whose directory exists under plugin_dir
    rtp,             \* plugin paths on the host's runtime path
    sched,           \* vim.schedule queue: the retry closures not yet run
    warnings,        \* vim.notify(..., WARN) messages, in order of emission
    attempts,        \* number of immediate attempts made so far (not program state)
    done,            \* the retries that have run (not program state)
    last,            \* what the most recent call did and returned
    hist             \* history of the open transaction (not program state)

deferred == <<sched, warnings, done, attempts>>

vars == <<plugins, CURRENT_PLUGIN, PLUGIN_CONFIG, disk, rtp, sched, warnings, attempts, done, last, hist>>

\* _G.plugins is created by the first register_plugin chunk the host runs and
\* nothing removes an entry, so the table exists iff it has an entry.
GPluginsExists == \E n \in Keys : plugins[n] # None

\* hist, the history of the open transaction: the statements pushed since the
\* last successful begin (stmts); whether only add_* calls took effect since
\* that begin (pure) and whether the registry entry of its target is still
\* the one it had at that begin (same); and, when that begin replaced an open
\* transaction with pure history, the replaced transaction's target, whether
\* it had statements, and whether that target's entry is still the one
\* it had at the replaced transaction's begin (disc).
HistInit == [stmts |-> << >>, pure |-> FALSE, same |-> TRUE, disc |-> None]

NoPrev == [op |-> "-", ran |-> FALSE, clones |-> {}, cloned |-> {}]

\* The record `last` of the most recent call: op and the pointer it was given
\* (arg), whether every pointer it was given was non-null (valid), whether a
\* transaction was open before the call (open), the return
\* value, the number of run_cmd calls, whether the host ran the chunk;
\* whether the entry of a key other than `key` changed (others) and whether
\* the transaction slot changed (slot).  The calls that address one registry
\* key add the key and its entry before the call (key, pre); end adds the
\* history of the transaction it closes (stmts, disc); install and update add
\* what they did and the same of the call before them (prev).  Obs reads the
\* primed program variables, so an action states it after them.
Obs(op, arg, key, ret, cmds, ran) ==
    [op |-> op, arg |-> arg, valid |-> TRUE, key |-> key,
     pre |-> IF key # None THEN plugins[key[1]] ELSE None,
     open |-> CURRENT_PLUGIN # None /\ PLUGIN_CONFIG # None,
     ret |-> ret, cmds |-> cmds, ran |-> ran,
     others |-> \E n \in Keys : Some(n) # key /\ plugins'[n] # plugins[n],
     slot |-> <<CURRENT_PLUGIN', PLUGIN_CONFIG'>> # <<CURRENT_PLUGIN, PLUGIN_CONFIG>>,
     stmts |-> << >>, disc |-> None,
     clones |-> {}, cloned |-> {}, pulls |-> {}, pulled |-> {}, packload |-> FALSE,
     tried |-> {}, failed |-> {}, queued |-> << >>, retry |-> None,
     prev |-> NoPrev]

InitLast ==
    [op |-> "init", arg |-> None, valid |-> TRUE, key |-> None, pre |-> None, open |-> FALSE,
     ret |-> 1, cmds |-> 0, ran |-> FALSE, others |-> FALSE, slot |-> FALSE,
     stmts |-> << >>, disc |-> None,
     clones |-> {}, cloned |-> {}, pulls |-> {}, pulled |-> {}, packload |-> FALSE,
     tried |-> {}, failed |-> {}, queued |-> << >>, retry |-> None,
     prev |-> NoPrev]

\* The statics start as None and _G.plugins does not exist; the directories
\* under plugin_dir persist across sessions of the host, so any may exist.
Init ==
    /\ plugins = [n \in Keys |-> None]
    /\ CURRENT_PLUGIN = None
    /\ PLUGIN_CONFIG = None
    /\ disk \in SUBSET PluginNames
    /\ rtp = {}
    /\ sched = << >>
    /\ warnings = << >>
    /\ attempts = 0
    /\ done = {}
    /\ last = InitLast
    /\ hist = HistInit

\* hist after a call that is neither a successful begin nor an end of an open
\* transaction; `outside` says that a call outside the transaction API took
\* effect.  Reads plugins'.
HistAfter(outside) ==
    [stmts |-> hist.stmts,
     pure |-> hist.pure /\ ~outside,
     same |-> hist.same /\ (CURRENT_PLUGIN # None => plugins'[CURRENT_PLUGIN[1]] = plugins[CURRENT_PLUGIN[1]]),
     disc |-> IF outside \/ hist.disc = None THEN None
              ELSE Some([hist.disc[1] EXCEPT
                            !.same = @ /\ plugins'[hist.disc[1].name] = plugins[hist.disc[1].name]])]

KeyOf(ptr) == IF ptr # NullPtr THEN Some(ptr[1]) ELSE None

----------------------------------------------------------------------------
(* The retry closures of load_plugin_configs                                *)

\* loadstring(text): the atom "(" stands for a token that leaves the chunk
\* syntactically incomplete; every other text compiles.
Parses(text) == "(" \notin Atoms(text)

\* One run of the two steps on config text cfg: pcall(require, name) fails
\* ("noload"), loadstring fails ("noparse"), chunk() raises ("raise"), or all
\* went through ("ok").  loadable and runs are the host's answers at that
\* moment; the empty chunk has no statement that could raise.
AttemptOutcome(cfg, loadable, runs) ==
    IF ~loadable THEN "noload"
    ELSE IF ~Parses(cfg) THEN "noparse"
    ELSE IF cfg # << >> /\ ~runs THEN "raise"
    ELSE "ok"

\* The err the outer pcall of the immediate attempt hands back.
ErrText(out) ==
    CASE out = "noload" -> <<"Module not found">>
      [] out = "noparse" -> <<"Failed to parse configuration: ", "syntax">>
      [] OTHER -> <<"runtime error">>

\* A retry whose pcall is taken to have failed whatever happened.
RetryPcall_never(out) == FALSE

\* The pcall of the retry: its inner function raises only from chunk(); a
\* module that does not load or a text that does not compile is passed over.
RetryPcall(out) == out # "raise"

\* The closure handed to vim.schedule captures name, plugin (a reference to
\* the entry's table) and err.  cfg is the config field of that table and
\* live says the table is still the registry's entry for name; call and icfg
\* (the text the immediate attempt used) are not program state: call is the
\* number of attempts made before the call that scheduled the closure.
Closure(call, name, cfg, out) ==
    [call |-> call, name |-> name, cfg |-> cfg, live |-> TRUE,
     err |-> ErrText(out), icfg |-> cfg]

\* A registry write that takes the retries of a rewritten entry off the queue.
Upvalues_cancel(q, tbl) ==
    SelectSeq(q, LAMBDA c : ~c.live \/ (tbl[c.name] # None /\ tbl[c.name][1].config = Some(c.cfg)))

\* What the queued closures see after the registry became tbl: a chunk of
\* configure_plugin assigns the config field of the table they captured; a
\* chunk of register_plugin puts a fresh table (config nil) under the name
\* and leaves the captured table as it was.
Upvalues(q, tbl) ==
    [i \in 1..Len(q) |->
        IF ~q[i].live THEN q[i]
        ELSE IF tbl[q[i].name] = None \/ tbl[q[i].name][1].config = None
             THEN [q[i] EXCEPT !.live = FALSE]
             ELSE [q[i] EXCEPT !.cfg = tbl[q[i].name][1].config[1]]]

----------------------------------------------------------------------------
(* register_plugin, configure_plugin *)

RegisterResult(tbl, name, url, x) ==
    LET n == extract_c_string(name)
        u == extract_c_string(url)
    IN  IF ~n.ok \/ ~u.ok
        THEN [ret |-> 0, cmds |-> 0, ran |-> FALSE, tbl |-> tbl]
        ELSE IF run_cmd(x)
             THEN [ret |-> 1, cmds |-> 1, ran |-> TRUE, tbl |-> LuaRegister(tbl, n.val, u.val)]
             ELSE [ret |-> 0, cmds |-> 1, ran |-> FALSE, tbl |-> tbl]

register_plugin(name, url, x) ==
    LET r == RegisterResult(plugins, name, url, x)
    IN  /\ plugins' = r.tbl
        /\ sched' = Upvalues(sched, r.tbl)
        /\ UNCHANGED <<CURRENT_PLUGIN, PLUGIN_CONFIG, disk, rtp, warnings, done, attempts>>
        /\ last' = [Obs("register", name, KeyOf(name), r.ret, r.cmds, r.ran) EXCEPT
                       !.valid = name # NullPtr /\ url # NullPtr]
        /\ hist' = HistAfter(r.ran)

ConfigureResult(tbl, name, config, x) ==
    LET n == extract_c_string(name)
        c == extract_c_string(config)
    IN  IF ~n.ok \/ ~c.ok
        THEN [ret |-> 0, cmds |-> 0, ran |-> FALSE, tbl |-> tbl]
        ELSE LET lit == LuaLongString(c.val)
                 ran == run_cmd(x) /\ lit.ok
             IN  IF ran
                 THEN [ret |-> 1, cmds |-> 1, ran |-> TRUE,
                       tbl |-> LuaSetConfig(tbl, n.val, lit.val)]
                 ELSE [ret |-> 0, cmds |-> 1, ran |-> FALSE, tbl |-> tbl]

configure_plugin(name, config, x) ==
    LET r == ConfigureResult(plugins, name, config, x)
    IN  /\ plugins' = r.tbl
        /\ sched' = Upvalues(sched, r.tbl)
        /\ UNCHANGED <<CURRENT_PLUGIN, PLUGIN_CONFIG, disk, rtp, warnings, done, attempts>>
        /\ last' = [Obs("configure", name, KeyOf(name), r.ret, r.cmds, r.ran) EXCEPT
                       !.valid = name # NullPtr /\ config # NullPtr]
        /\ hist' = HistAfter(r.ran)

----------------------------------------------------------------------------
(* The transaction slot: plugin_config_begin, the add_* functions,         *)
(* plugin_config_end                                                       *)

TxOpen == CURRENT_PLUGIN # None /\ PLUGIN_CONFIG # None

\* hist after a successful begin of a transaction for key n.  Reads plugins'.
HistBegin(n) ==
    [stmts |-> << >>, pure |-> TRUE, same |-> TRUE,
     disc |-> IF TxOpen /\ hist.pure
              THEN Some([name |-> CURRENT_PLUGIN[1], nonempty |-> hist.stmts # << >>,
                         same |-> hist.same /\ plugins'[CURRENT_PLUGIN[1]] = plugins[CURRENT_PLUGIN[1]]])
              ELSE None]

\* A begin that keeps the buffer of a transaction that is still open.
plugin_config_begin_keepbuf(plugin_name) ==
    LET n == extract_c_string(plugin_name)
    IN  IF n.ok
        THEN /\ CURRENT_PLUGIN' = Some(n.val)
             /\ PLUGIN_CONFIG' = IF PLUGIN_CONFIG # None THEN PLUGIN_CONFIG ELSE Some(<< >>)
             /\ UNCHANGED <<plugins, disk, rtp, deferred>>
             /\ last' = Obs("begin", plugin_name, None, 1, 0, FALSE)
             /\ hist' = HistBegin(n.val)
        ELSE /\ UNCHANGED <<plugins, CURRENT_PLUGIN, PLUGIN_CONFIG, disk, rtp, deferred>>
             /\ last' = [Obs("begin", plugin_name, None, 0, 0, FALSE) EXCEPT !.valid = FALSE]
             /\ hist' = HistAfter(FALSE)

\* A begin that, given a null name, drops the transaction that is open.
plugin_config_begin_nullclears(plugin_name) ==
    LET n == extract_c_string(plugin_name)
    IN  IF n.ok
        THEN /\ CURRENT_PLUGIN' = Some(n.val)
             /\ PLUGIN_CONFIG' = Some(<< >>)
             /\ UNCHANGED <<plugins, disk, rtp, deferred>>
             /\ last' = Obs("begin", plugin_name, None, 1, 0, FALSE)
             /\ hist' = HistBegin(n.val)
        ELSE /\ CURRENT_PLUGIN' = None
             /\ PLUGIN_CONFIG' = None
             /\ UNCHANGED <<plugins, disk, rtp, deferred>>
             /\ last' = [Obs("begin", plugin_name, None, 0, 0, FALSE) EXCEPT !.valid = FALSE]
             /\ hist' = HistInit

plugin_config_begin(plugin_name) ==
    LET n == extract_c_string(plugin_name)
    IN  IF n.ok
        THEN /\ CURRENT_PLUGIN' = Some(n.val)
             /\ PLUGIN_CONFIG' = Some(<< >>)
             /\ UNCHANGED <<plugins, disk, rtp, deferred>>
             /\ last' = Obs("begin", plugin_name, None, 1, 0, FALSE)
             /\ hist' = HistBegin(n.val)
        ELSE /\ UNCHANGED <<plugins, CURRENT_PLUGIN, PLUGIN_CONFIG, disk, rtp, deferred>>
             /\ last' = [Obs("begin", plugin_name, None, 0, 0, FALSE) EXCEPT !.valid = FALSE]
             /\ hist' = HistAfter(FALSE)

\* An add_* that opens a buffer when none is there.
PushStmt_autoopen(op, argsOk, stmt) ==
    IF argsOk
    THEN /\ Len(hist.stmts) < MaxStmts
         /\ PLUGIN_CONFIG' = Some((IF PLUGIN_CONFIG # None THEN PLUGIN_CONFIG[1] ELSE << >>) \o stmt)
         /\ UNCHANGED <<plugins, CURRENT_PLUGIN, disk, rtp, deferred>>
         /\ last' = Obs(op, None, None, 1, 0, FALSE)
         /\ hist' = [HistAfter(FALSE) EXCEPT !.stmts = Append(@, stmt)]
    ELSE /\ UNCHANGED <<plugins, CURRENT_PLUGIN, PLUGIN_CONFIG, disk, rtp, deferred>>
         /\ last' = [Obs(op, None, None, 0, 0, FALSE) EXCEPT !.valid = argsOk]
         /\ hist' = HistAfter(FALSE)

\* An add_* that also writes the grown buffer into the target's entry.
PushStmt_writethrough(op, argsOk, stmt) ==
    IF argsOk /\ PLUGIN_CONFIG # None
    THEN /\ Len(hist.stmts) < MaxStmts
         /\ PLUGIN_CONFIG' = Some(PLUGIN_CONFIG[1] \o stmt)
         /\ plugins' = IF CURRENT_PLUGIN # None
                       THEN LuaSetConfig(plugins, CURRENT_PLUGIN[1], PLUGIN_CONFIG[1] \o stmt)
                       ELSE plugins
         /\ UNCHANGED <<CURRENT_PLUGIN, disk, rtp, deferred>>
         /\ last' = Obs(op, None, None, 1, 0, FALSE)
         /\ hist' = [HistAfter(FALSE) EXCEPT !.stmts = Append(@, stmt)]
    ELSE /\ UNCHANGED <<plugins, CURRENT_PLUGIN, PLUGIN_CONFIG, disk, rtp, deferred>>
         /\ last' = [Obs(op, None, None, 0, 0, FALSE) EXCEPT !.valid = argsOk]
         /\ hist' = HistAfter(FALSE)

\* The common body of the add_* functions: with every argument extracted
\* (argsOk) and a buffer present, push_str(stmt) and return 1; otherwise 0.
PushStmt(op, argsOk, stmt) ==
    IF argsOk /\ PLUGIN_CONFIG # None
    THEN /\ Len(hist.stmts) < MaxStmts
         /\ PLUGIN_CONFIG' = Some(PLUGIN_CONFIG[1] \o stmt)
         /\ UNCHANGED <<plugins, CURRENT_PLUGIN, disk, rtp, deferred>>
         /\ last' = Obs(op, None, None, 1, 0, FALSE)
         /\ hist' = [HistAfter(FALSE) EXCEPT !.stmts = Append(@, stmt)]
    ELSE /\ UNCHANGED <<plugins, CURRENT_PLUGIN, PLUGIN_CONFIG, disk, rtp, deferred>>
         /\ last' = [Obs(op, None, None, 0, 0, FALSE) EXCEPT !.valid = argsOk]
         /\ hist' = HistAfter(FALSE)

plugin_config_add_server(server_name) ==
    LET s == extract_c_string(server_name)
    IN  PushStmt("add_server", s.ok, ServerStmt(s.val))

plugin_config_set_server_option(server, option, value) ==
    LET s == extract_c_string(server)
        o == extract_c_string(option)
        v == extract_c_string(value)
    IN  PushStmt("add_option", s.ok /\ o.ok /\ v.ok, OptionStmt(s.val, o.val, v.val))

plugin_config_set_mapping(plugin, mode, key, action) ==
    LET p == extract_c_string(plugin)
        m == extract_c_string(mode)
        k == extract_c_string(key)
        a == extract_c_string(action)
    IN  PushStmt("add_mapping", p.ok /\ m.ok /\ k.ok /\ a.ok,
                 MappingStmt(p.val, m.val, k.val, a.val))

\* The third parameter, _plugin, is never read.
plugin_config_add_keymap(mode, key, plugin, command) ==
    LET m == extract_c_string(mode)
        k == extract_c_string(key)
        c == extract_c_string(command)
    IN  PushStmt("add_keymap", m.ok /\ k.ok /\ c.ok, KeymapStmt(m.val, k.val, c.val))

\* The last' of an end that closes an open transaction.
EndObs(r) ==
    [Obs("end", None, CURRENT_PLUGIN, r.ret, r.cmds, r.ran) EXCEPT
        !.stmts = hist.stmts, !.disc = HistAfter(FALSE).disc]

\* An end that commits an empty configuration for the empty name when no
\* transaction is open.
plugin_config_end_unguarded(x) ==
    LET cur == IF CURRENT_PLUGIN # None THEN CURRENT_PLUGIN[1] ELSE ""
        buf == IF PLUGIN_CONFIG # None THEN PLUGIN_CONFIG[1] ELSE << >>
        r == ConfigureResult(plugins, Ptr(cur), Ptr(buf), x)
    IN  /\ plugins' = r.tbl
        /\ CURRENT_PLUGIN' = None
        /\ PLUGIN_CONFIG' = None
        /\ sched' = Upvalues(sched, r.tbl)
        /\ UNCHANGED <<disk, rtp, warnings, done, attempts>>
        /\ last' = [Obs("end", None, CURRENT_PLUGIN, r.ret, r.cmds, r.ran) EXCEPT
                       !.stmts = hist.stmts, !.disc = HistAfter(FALSE).disc]
        /\ hist' = HistInit

\* An end that takes an empty buffer for nothing to commit.
plugin_config_end_skipempty(x) ==
    IF CURRENT_PLUGIN # None /\ PLUGIN_CONFIG # None
    THEN LET r == IF PLUGIN_CONFIG[1] = << >>
                  THEN [ret |-> 1, cmds |-> 0, ran |-> FALSE, tbl |-> plugins]
                  ELSE ConfigureResult(plugins, Ptr(CURRENT_PLUGIN[1]), Ptr(PLUGIN_CONFIG[1]), x)
         IN  /\ plugins' = r.tbl
             /\ CURRENT_PLUGIN' = None
             /\ PLUGIN_CONFIG' = None
             /\ sched' = Upvalues(sched, r.tbl)
             /\ UNCHANGED <<disk, rtp, warnings, done, attempts>>
             /\ last' = [EndObs(r) EXCEPT !.ran = run_cmd(x)]
             /\ hist' = HistInit
    ELSE /\ UNCHANGED <<plugins, CURRENT_PLUGIN, PLUGIN_CONFIG, disk, rtp, deferred>>
         /\ last' = Obs("end", None, None, 0, 0, FALSE)
         /\ hist' = HistAfter(FALSE)

\* An end that keeps the transaction open when the commit fails.
plugin_config_end_keeponfail(x) ==
    IF CURRENT_PLUGIN # None /\ PLUGIN_CONFIG # None
    THEN LET r == ConfigureResult(plugins, Ptr(CURRENT_PLUGIN[1]), Ptr(PLUGIN_CONFIG[1]), x)
         IN  /\ plugins' = r.tbl
             /\ CURRENT_PLUGIN' = IF r.ret = 1 THEN None ELSE CURRENT_PLUGIN
             /\ PLUGIN_CONFIG' = IF r.ret = 1 THEN None ELSE PLUGIN_CONFIG
             /\ sched' = Upvalues(sched, r.tbl)
             /\ UNCHANGED <<disk, rtp, warnings, done, attempts>>
             /\ last' = EndObs(r)
             /\ hist' = IF r.ret = 1 THEN HistInit ELSE HistAfter(FALSE)
    ELSE /\ UNCHANGED <<plugins, CURRENT_PLUGIN, PLUGIN_CONFIG, disk, rtp, deferred>>
         /\ last' = Obs("end", None, None, 0, 0, FALSE)
         /\ hist' = HistAfter(FALSE)

plugin_config_end(x) ==
    IF CURRENT_PLUGIN # None /\ PLUGIN_CONFIG # None
    THEN LET r == ConfigureResult(plugins, Ptr(CURRENT_PLUGIN[1]), Ptr(PLUGIN_CONFIG[1]), x)
         IN  /\ plugins' = r.tbl
             /\ CURRENT_PLUGIN' = None
             /\ PLUGIN_CONFIG' = None
             /\ sched' = Upvalues(sched, r.tbl)
             /\ UNCHANGED <<disk, rtp, warnings, done, attempts>>
             /\ last' = EndObs(r)
             /\ hist' = HistInit
    ELSE /\ UNCHANGED <<plugins, CURRENT_PLUGIN, PLUGIN_CONFIG, disk, rtp, deferred>>
         /\ last' = Obs("end", None, None, 0, 0, FALSE)
         /\ hist' = HistAfter(FALSE)

----------------------------------------------------------------------------
(* install_plugins, update_plugins *)

\* plugin_dir .. name
PluginPath(n) == <<"data/site/pack/managed/start/", n>>

\* for name, plugin in pairs(_G.plugins) do if plugin.enabled then ...
EnabledNames == { n \in Keys : plugins[n] # None /\ plugins[n][1].enabled }

\* An install that clones without looking for the directory.
NeedsClone_always(n, dirs) == TRUE

\* vim.fn.isdirectory(plugin_path) == 0
NeedsClone(n, dirs) == n \notin dirs

\* An update that pulls without looking for the directory.
HasDir_always(n, dirs) == TRUE

\* vim.fn.isdirectory(plugin_path) == 1
HasDir(n, dirs) == n \in dirs

\* An install that stops at the first clone that fails: no later plugin is
\* looked at and the loading pass is not reached.
install_plugins_abort(x, okc) ==
    /\ run_cmd(x) /\ GPluginsExists
    /\ LET need == { n \in EnabledNames : NeedsClone(n, disk) }
           clones == IF need \subseteq okc THEN need ELSE need \ okc
           seen == IF need \subseteq okc THEN EnabledNames ELSE {}
       IN  /\ disk' = disk \cup (clones \cap okc)
           /\ plugins' = [n \in Keys |->
                            IF n \in seen
                            THEN Some([plugins[n][1] EXCEPT !.path = Some(PluginPath(n))])
                            ELSE plugins[n]]
           /\ rtp' = rtp \cup { PluginPath(n) : n \in seen }
           /\ UNCHANGED <<CURRENT_PLUGIN, PLUGIN_CONFIG, deferred>>
           /\ last' = [Obs("install", None, None, 1, 1, TRUE) EXCEPT
                          !.clones = clones, !.cloned = clones \cap okc,
                          !.packload = need \subseteq okc,
                          !.prev = [op |-> last.op, ran |-> last.ran,
                                    clones |-> last.clones, cloned |-> last.cloned]]
           /\ hist' = HistAfter(TRUE)

\* okc: the plugins whose git clone, if run, succeeds and leaves a directory.
\* The loop body is the same for every enabled plugin and touches only that
\* plugin, so the order of pairs() does not show in the result.  The result
\* of vim.fn.system is not looked at: the loop goes on after a failed clone.
install_plugins(x, okc) ==
    IF run_cmd(x)
    THEN IF GPluginsExists
         THEN LET clones == { n \in EnabledNames : NeedsClone(n, disk) }
              IN  /\ disk' = disk \cup (clones \cap okc)
                  /\ plugins' = [n \in Keys |->
                                   IF n \in EnabledNames
                                   THEN Some([plugins[n][1] EXCEPT !.path = Some(PluginPath(n))])
                                   ELSE plugins[n]]
                  /\ rtp' = rtp \cup { PluginPath(n) : n \in EnabledNames }
                  /\ UNCHANGED <<CURRENT_PLUGIN, PLUGIN_CONFIG, deferred>>
                  /\ last' = [Obs("install", None, None, 1, 1, TRUE) EXCEPT
                                 !.clones = clones, !.cloned = clones \cap okc,
                                 !.packload = TRUE,
                                 !.prev = [op |-> last.op, ran |-> last.ran,
                                           clones |-> last.clones, cloned |-> last.cloned]]
                  /\ hist' = HistAfter(TRUE)
         ELSE \* if not _G.plugins then return end
              /\ UNCHANGED <<plugins, CURRENT_PLUGIN, PLUGIN_CONFIG, disk, rtp, deferred>>
              /\ last' = [Obs("install", None, None, 1, 1, TRUE) EXCEPT
                             !.prev = [op |-> last.op, ran |-> last.ran,
                                       clones |-> last.clones, cloned |-> last.cloned]]
              /\ hist' = HistAfter(FALSE)
    ELSE /\ UNCHANGED <<plugins, CURRENT_PLUGIN, PLUGIN_CONFIG, disk, rtp, deferred>>
         /\ last' = [Obs("install", None, None, 0, 1, FALSE) EXCEPT
                        !.prev = [op |-> last.op, ran |-> last.ran,
                                  clones |-> last.clones, cloned |-> last.cloned]]
         /\ hist' = HistAfter(FALSE)

\* okp: the plugins whose git pull --ff-only, if run, succeeds.  A pull
\* changes the content of a directory, not which directories exist, and
\* vim.fn.system hands a failed command's output back without raising.
update_plugins(x, okp) ==
    IF run_cmd(x)
    THEN IF GPluginsExists
         THEN LET pulls == { n \in EnabledNames : HasDir(n, disk) }
              IN  /\ UNCHANGED <<plugins, CURRENT_PLUGIN, PLUGIN_CONFIG, disk, rtp, deferred>>
                  /\ last' = [Obs("update", None, None, 1, 1, TRUE) EXCEPT
                                 !.pulls = pulls, !.pulled = pulls \cap okp,
                                 !.packload = TRUE]
                  /\ hist' = HistAfter(FALSE)
         ELSE /\ UNCHANGED <<plugins, CURRENT_PLUGIN, PLUGIN_CONFIG, disk, rtp, deferred>>
              /\ last' = Obs("update", None, None, 1, 1, TRUE)
              /\ hist' = HistAfter(FALSE)
    ELSE /\ UNCHANGED <<plugins, CURRENT_PLUGIN, PLUGIN_CONFIG, disk, rtp, deferred>>
         /\ last' = Obs("update", None, None, 0, 1, FALSE)
         /\ hist' = HistAfter(FALSE)

----------------------------------------------------------------------------
(* load_plugin_configs and the closures it schedules *)

\* Bound: number of immediate attempts, over all load_plugin_configs calls.
MaxAttempts == 2

\* if plugin.enabled and plugin.config then: a config that is the empty
\* string is a string, and every string is true in Lua.
Eligible == { n \in Keys : plugins[n] # None /\ plugins[n][1].enabled /\ plugins[n][1].config # None }

\* The orders in which pairs(_G.plugins) may visit the keys.
PairsOrders ==
    LET present == { n \in Keys : plugins[n] # None }
        k == Cardinality(present)
    IN  { o \in [1..k -> present] : \A i, j \in 1..k : o[i] = o[j] => i = j }

\* A load_plugin_configs that runs the second attempt where the first failed
\* and reports at once, scheduling nothing.
load_plugin_configs_inline(x, ord, loadable, runs) ==
    /\ attempts + Cardinality(Eligible) <= MaxAttempts
    /\ IF run_cmd(x) /\ GPluginsExists
       THEN LET out(n) == AttemptOutcome(plugins[n][1].config[1], n \in loadable, n \in runs)
                failed == { n \in Eligible : out(n) # "ok" }
                names == SelectSeq(ord, LAMBDA n : n \in failed)
            IN  /\ warnings' = warnings \o [i \in 1..Len(names) |->
                                   [name |-> names[i], err |-> ErrText(out(names[i])), call |-> attempts]]
                /\ done' = done \cup { [call |-> attempts, name |-> n, out |-> out(n)] : n \in failed }
                /\ attempts' = attempts + Cardinality(Eligible)
                /\ UNCHANGED <<plugins, CURRENT_PLUGIN, PLUGIN_CONFIG, disk, rtp, sched>>
                /\ last' = [Obs("apply", None, None, 1, 1, TRUE) EXCEPT
                               !.tried = { <<n, plugins[n][1].config[1]>> : n \in Eligible },
                               !.failed = failed]
                /\ hist' = HistAfter(FALSE)
       ELSE /\ UNCHANGED <<plugins, CURRENT_PLUGIN, PLUGIN_CONFIG, disk, rtp, deferred>>
            /\ last' = Obs("apply", None, None, IF run_cmd(x) THEN 1 ELSE 0, 1, run_cmd(x))
            /\ hist' = HistAfter(FALSE)

\* A load_plugin_configs whose loop ends at the first attempt that fails.
load_plugin_configs_stop(x, ord, loadable, runs) ==
    /\ attempts + Cardinality(Eligible) <= MaxAttempts
    /\ IF run_cmd(x) /\ GPluginsExists
       THEN LET out(n) == AttemptOutcome(plugins[n][1].config[1], n \in loadable, n \in runs)
                elig == SelectSeq(ord, LAMBDA n : n \in Eligible)
                bad == { i \in 1..Len(elig) : out(elig[i]) # "ok" }
                stop == IF bad = {} THEN Len(elig) ELSE CHOOSE i \in bad : \A j \in bad : i <= j
                seen == { elig[i] : i \in 1..stop }
                failed == { n \in seen : out(n) # "ok" }
                names == SelectSeq(ord, LAMBDA n : n \in failed)
            IN  /\ sched' = sched \o [i \in 1..Len(names) |->
                                Closure(attempts, names[i], plugins[names[i]][1].config[1], out(names[i]))]
                /\ attempts' = attempts + Cardinality(Eligible)
                /\ UNCHANGED <<plugins, CURRENT_PLUGIN, PLUGIN_CONFIG, disk, rtp, warnings, done>>
                /\ last' = [Obs("apply", None, None, 1, 1, TRUE) EXCEPT
                               !.tried = { <<n, plugins[n][1].config[1]>> : n \in seen },
                               !.failed = failed,
                               !.queued = names]
                /\ hist' = HistAfter(FALSE)
       ELSE /\ UNCHANGED <<plugins, CURRENT_PLUGIN, PLUGIN_CONFIG, disk, rtp, deferred>>
            /\ last' = Obs("apply", None, None, IF run_cmd(x) THEN 1 ELSE 0, 1, run_cmd(x))
            /\ hist' = HistAfter(FALSE)

\* ord is the order of pairs(); loadable the names whose module require finds
\* during this chunk, runs the names whose compiled config runs to its end.
\* Each eligible plugin gets one attempt; each failed attempt appends one
\* closure to the host's queue.  Nothing in the chunk runs a closure or
\* calls vim.notify.
load_plugin_configs(x, ord, loadable, runs) ==
    /\ attempts + Cardinality(Eligible) <= MaxAttempts
    /\ IF run_cmd(x) /\ GPluginsExists
       THEN LET out(n) == AttemptOutcome(plugins[n][1].config[1], n \in loadable, n \in runs)
                failed == { n \in Eligible : out(n) # "ok" }
                names == SelectSeq(ord, LAMBDA n : n \in failed)
            IN  /\ sched' = sched \o [i \in 1..Len(names) |->
                                Closure(attempts, names[i], plugins[names[i]][1].config[1], out(names[i]))]
                /\ attempts' = attempts + Cardinality(Eligible)
                /\ UNCHANGED <<plugins, CURRENT_PLUGIN, PLUGIN_CONFIG, disk, rtp, warnings, done>>
                /\ last' = [Obs("apply", None, None, 1, 1, TRUE) EXCEPT
                               !.tried = { <<n, plugins[n][1].config[1]>> : n \in Eligible },
                               !.failed = failed,
                               !.queued = names]
                /\ hist' = HistAfter(FALSE)
       ELSE \* the host did not run the chunk, or: if not _G.plugins then return end
            /\ UNCHANGED <<plugins, CURRENT_PLUGIN, PLUGIN_CONFIG, disk, rtp, deferred>>
            /\ last' = Obs("apply", None, None, IF run_cmd(x) THEN 1 ELSE 0, 1, run_cmd(x))
            /\ hist' = HistAfter(FALSE)

\* A retry that schedules itself again when it fails.
vim_schedule_callback_again(loadable, runs) ==
    /\ sched # << >>
    /\ LET c == Head(sched)
           out == AttemptOutcome(c.cfg, loadable, runs)
       IN  /\ sched' = IF out # "ok" THEN Append(Tail(sched), c) ELSE Tail(sched)
           /\ warnings' = IF ~RetryPcall(out)
                          THEN Append(warnings, [name |-> c.name, err |-> c.err, call |-> c.call])
                          ELSE warnings
           /\ done' = done \cup { [call |-> c.call, name |-> c.name, out |-> out] }
           /\ UNCHANGED <<plugins, CURRENT_PLUGIN, PLUGIN_CONFIG, disk, rtp, attempts>>
           /\ last' = [Obs("retry", None, None, 1, 0, TRUE) EXCEPT
                          !.queued = IF out # "ok" THEN <<c.name>> ELSE << >>,
                          !.retry = Some([call |-> c.call, name |-> c.name, out |-> out,
                                          icfg |-> c.icfg, rcfg |-> c.cfg])]
           /\ hist' = HistAfter(FALSE)

\* The host's main loop runs the closure at the head of the queue, once: the
\* two steps again on the config the captured table has now; vim.notify at
\* level WARN, with the captured name and err, when its pcall fails.
vim_schedule_callback(loadable, runs) ==
    /\ sched # << >>
    /\ LET c == Head(sched)
           out == AttemptOutcome(c.cfg, loadable, runs)
       IN  /\ sched' = Tail(sched)
           /\ warnings' = IF ~RetryPcall(out)
                          THEN Append(warnings, [name |-> c.name, err |-> c.err, call |-> c.call])
                          ELSE warnings
           /\ done' = done \cup { [call |-> c.call, name |-> c.name, out |-> out] }
           /\ UNCHANGED <<plugins, CURRENT_PLUGIN, PLUGIN_CONFIG, disk, rtp, attempts>>
           /\ last' = [Obs("retry", None, None, 1, 0, TRUE) EXCEPT
                          !.retry = Some([call |-> c.call, name |-> c.name, out |-> out,
                                          icfg |-> c.icfg, rcfg |-> c.cfg])]
           /\ hist' = HistAfter(FALSE)

----------------------------------------------------------------------------
(* Inputs *)

NamePtrs == {NullPtr} \cup { Ptr(n) : n \in PluginNames }
TxNamePtrs == {NullPtr} \cup { Ptr(n) : n \in Keys }
UrlPtrs == {NullPtr} \cup { Ptr(u) : u \in Urls }
TextPtrs == {NullPtr} \cup { Ptr(t) : t \in ConfigTexts }
ServerPtrs == {NullPtr, Ptr("pyright")}

\* Argument lists of the add_* functions: every pointer valid, or one null.
OptionArgs ==
    { <<Ptr("pyright"), Ptr("checkOnSave"), Ptr("v")>>,
      <<NullPtr, Ptr("checkOnSave"), Ptr("v")>>,
      <<Ptr("pyright"), NullPtr, Ptr("v")>>,
      <<Ptr("pyright"), Ptr("checkOnSave"), NullPtr>> }
MappingArgs ==
    { <<Ptr("telescope"), Ptr("i"), Ptr("<esc>"), Ptr("close")>>,
      <<NullPtr, Ptr("i"), Ptr("<esc>"), Ptr("close")>>,
      <<Ptr("telescope"), NullPtr, Ptr("<esc>"), Ptr("close")>>,
      <<Ptr("telescope"), Ptr("i"), NullPtr, Ptr("close")>>,
      <<Ptr("telescope"), Ptr("i"), Ptr("<esc>"), NullPtr>> }
KeymapArgs ==
    { <<Ptr("n"), Ptr("<C-p>"), Ptr("telescope"), Ptr("find_files")>>,
      <<NullPtr, Ptr("<C-p>"), Ptr("telescope"), Ptr("find_files")>>,
      <<Ptr("n"), NullPtr, Ptr("telescope"), Ptr("find_files")>>,
      <<Ptr("n"), Ptr("<C-p>"), NullPtr, Ptr("find_files")>>,
      <<Ptr("n"), Ptr("<C-p>"), Ptr("telescope"), NullPtr>> }

----------------------------------------------------------------------------
(* SpecTx: the registry and the transaction slot, two plugins.             *)

\* The transaction API never reads the disk: these specifications start with
\* no plugin directory.
InitTx == Init /\ disk = {}

TxRegister == \E name \in NamePtrs, x \in ExecOutcomes : register_plugin(name, Ptr("u1"), x)
TxConfigure == \E name \in NamePtrs, config \in {NullPtr, Ptr(<<"x">>)}, x \in ExecOutcomes : configure_plugin(name, config, x)
TxBegin == \E name \in TxNamePtrs : plugin_config_begin(name)
TxAddServer == \E s \in ServerPtrs : plugin_config_add_server(s)
TxEnd == \E x \in ExecOutcomes : plugin_config_end(x)

NextTx ==
    \/ TxRegister
    \/ TxConfigure
    \/ TxBegin
    \/ TxAddServer
    \/ TxEnd

SpecTx == InitTx /\ [][NextTx]_vars

----------------------------------------------------------------------------
(* SpecAdd: one plugin, every add_* function.                              *)

AddRegister ==
    \E t \in { <<Ptr("a"), Ptr("u1")>>, <<NullPtr, Ptr("u1")>> }, x \in ExecOutcomes :
        register_plugin(t[1], t[2], x)
AddConfigure == \E config \in TextPtrs, x \in ExecOutcomes : configure_plugin(Ptr("a"), config, x)
AddBegin == \E name \in {NullPtr, Ptr("a")} : plugin_config_begin(name)
AddServer == \E s \in ServerPtrs : plugin_config_add_server(s)
AddOption == \E t \in OptionArgs : plugin_config_set_server_option(t[1], t[2], t[3])
AddMapping == \E t \in MappingArgs : plugin_config_set_mapping(t[1], t[2], t[3], t[4])
AddKeymap == \E t \in KeymapArgs : plugin_config_add_keymap(t[1], t[2], t[3], t[4])
AddEnd == \E x \in ExecOutcomes : plugin_config_end(x)

NextAdd ==
    \/ AddRegister
    \/ AddConfigure
    \/ AddBegin
    \/ AddServer
    \/ AddOption
    \/ AddMapping
    \/ AddKeymap
    \/ AddEnd

SpecAdd == InitTx /\ [][NextAdd]_vars

----------------------------------------------------------------------------
(* SpecInst: the registry with install and update, two plugins.            *)

InstRegister == \E name \in NamePtrs, url \in UrlPtrs, x \in ExecOutcomes : register_plugin(name, url, x)
InstConfigure == \E name \in NamePtrs, config \in {NullPtr, Ptr(<<"x">>)}, x \in ExecOutcomes : configure_plugin(name, config, x)
InstInstall == \E x \in ExecOutcomes, okc \in SUBSET PluginNames : install_plugins(x, okc)
InstUpdate == \E x \in ExecOutcomes, okp \in SUBSET PluginNames : update_plugins(x, okp)

NextInst ==
    \/ InstRegister
    \/ InstConfigure
    \/ InstInstall
    \/ InstUpdate

SpecInst == Init /\ [][NextInst]_vars

----------------------------------------------------------------------------
(* SpecApply: the registry with load_plugin_configs and the host's queue,  *)
(* two plugins.                                                            *)

\* Config texts: the empty one and one with a statement.
ApplyTexts == { << >>, <<"x">> }

\* The executor's failure in register_plugin and configure_plugin is the
\* subject of SpecTx and SpecInst; here the host runs their chunks.
ApRegister == \E n \in PluginNames : register_plugin(Ptr(n), Ptr("u1"), "ok")
ApConfigure ==
    \E n \in PluginNames, t \in ApplyTexts :
        /\ n = "b" => t = <<"x">>
        /\ configure_plugin(Ptr(n), Ptr(t), "ok")
ApApply ==
    \E x \in ExecOutcomes, ord \in PairsOrders, loadable \in SUBSET PluginNames, runs \in SUBSET PluginNames :
        load_plugin_configs(x, ord, loadable, runs)
ApRetry == \E loadable \in BOOLEAN, runs \in BOOLEAN : vim_schedule_callback(loadable, runs)

NextApply ==
    \/ ApRegister
    \/ ApConfigure
    \/ ApApply
    \/ ApRetry

SpecApply == InitTx /\ [][NextApply]_vars

----------------------------------------------------------------------------
(* SpecSched: one plugin, every exported function, and the host's main     *)
(* loop, which runs every closure handed to vim.schedule.                  *)

\* The config text handed to configure_plugin here does not compile; a
\* transaction without statements commits the empty text, which does.
SchedTexts == { <<"(">> }

ScRegister == register_plugin(Ptr("a"), Ptr("u1"), "ok")
ScConfigure == \E t \in SchedTexts : configure_plugin(Ptr("a"), Ptr(t), "ok")
ScBegin == plugin_config_begin(Ptr("a"))
ScEnd == plugin_config_end("ok")
ScInstall == install_plugins("ok", {"a"})
ScUpdate == update_plugins("ok", {"a"})
\* No module is found during the call, so every attempt it makes fails and
\* is handed to vim.schedule; SpecApply has the other outcomes.
ScApply == \E ord \in PairsOrders : load_plugin_configs("ok", ord, {}, {"a"})
ScRetry == \E loadable \in BOOLEAN : vim_schedule_callback(loadable, TRUE)

NextSched ==
    \/ ScRegister
    \/ ScConfigure
    \/ ScBegin
    \/ ScEnd
    \/ ScInstall
    \/ ScUpdate
    \/ ScApply
    \/ ScRetry

\* vim.schedule puts the closure on the main loop's queue and the loop goes
\* on taking from it: a closure at the head is not left there for ever.
SpecSched == InitTx /\ [][NextSched]_vars /\ WF_vars(ScRetry)

----------------------------------------------------------------------------
(* SpecCfg: both ways of writing a config, next to register and install,   *)
(* two plugins.  The transactions here carry no statement.                 *)

CfRegister == \E n \in PluginNames, u \in Urls : register_plugin(Ptr(n), Ptr(u), "ok")
CfConfigure == \E n \in PluginNames, x \in ExecOutcomes : configure_plugin(Ptr(n), Ptr(<<"x">>), x)
CfBegin == \E n \in PluginNames : plugin_config_begin(Ptr(n))
CfEnd == \E x \in ExecOutcomes : plugin_config_end(x)
CfInstall == \E okc \in SUBSET PluginNames : install_plugins("ok", okc)

NextCfg ==
    \/ CfRegister
    \/ CfConfigure
    \/ CfBegin
    \/ CfEnd
    \/ CfInstall

SpecCfg == InitTx /\ [][NextCfg]_vars

----------------------------------------------------------------------------
(* Claims *)

AddOps == {"add_server", "add_option", "add_mapping", "add_keymap"}

\* The config and the path of key n in the registry (None when the key has no
\* entry or the field is nil).
ConfigOf(n) == IF plugins[n] # None THEN plugins[n][1].config ELSE None
PathOf(n) == IF plugins[n] # None THEN plugins[n][1].path ELSE None

\* C1: calling register(P, url2) for a plugin P that is already registered
\* leaves P's config and install_path exactly as they were and changes
\* nothing but P's url and enabled flag.
C1_ReRegisterKeepsConfigAndPath ==
    (last.op = "register" /\ last.valid /\ last.pre # None) =>
        /\ plugins[last.key[1]] # None
        /\ ConfigOf(last.key[1]) = last.pre[1].config
        /\ PathOf(last.key[1]) = last.pre[1].path
        /\ ~last.others

\* C2: when begin(A), followed by add_* calls only, is followed by begin(B)
\* and, after add_* calls only, by end(), the statements added under A are
\* never committed: A's entry is the one it had before begin(A) when A differs
\* from B, and B's config is exactly the statements added after begin(B) when
\* the host ran the commit of a registered B, and B's entry is as it was
\* before end() otherwise.
C2_ReplacedTransactionDiscarded ==
    (last.op = "end" /\ last.open /\ last.disc # None) =>
        LET A == last.disc[1].name
            B == last.key[1]
        IN  /\ A # B => last.disc[1].same
            /\ (last.ran /\ last.pre # None) => ConfigOf(B) = Some(Flatten(last.stmts))
            /\ ~(last.ran /\ last.pre # None) => plugins[B] = last.pre
            /\ ~last.others

\* C2 witness: an end() committed B's statements after a transaction for a
\* different registered plugin A, with statements of its own, was replaced.
C2_Witness ==
    /\ last.op = "end" /\ last.open /\ last.disc # None
    /\ last.disc[1].nonempty
    /\ last.disc[1].name # last.key[1]
    /\ plugins[last.disc[1].name] # None
    /\ last.ran /\ last.pre # None
    /\ last.stmts # << >>
    /\ ConfigOf(last.key[1]) = Some(Flatten(last.stmts))
    /\ ConfigOf(last.disc[1].name) = None

\* C3: end() with no open transaction returns failure, issues no command,
\* and leaves the registry and the empty transaction slot as they were.
C3_EndWithoutTransaction ==
    (last.op = "end" /\ ~last.open) =>
        /\ last.ret = 0
        /\ last.cmds = 0
        /\ ~last.others
        /\ ~last.slot
        /\ CURRENT_PLUGIN = None /\ PLUGIN_CONFIG = None

\* C3 witness: end() was called with no open transaction while a plugin is
\* registered.
C3_Witness ==
    /\ last.op = "end" /\ ~last.open /\ last.ret = 0
    /\ \E n \in PluginNames : plugins[n] # None

\* C4: an add_* call (add_server, add_option, add_mapping, add_keymap) with no
\* open transaction returns failure and changes neither the transaction slot
\* nor the registry; it does not open a transaction.
C4_AddWithoutTransaction ==
    (last.op \in AddOps /\ ~last.open) =>
        /\ last.ret = 0
        /\ last.cmds = 0
        /\ ~last.slot
        /\ ~last.others
        /\ CURRENT_PLUGIN = None /\ PLUGIN_CONFIG = None

\* C4 witness: add_keymap was called with valid arguments and no open
\* transaction, while the plugin is registered.
C4_Witness ==
    /\ last.op = "add_keymap" /\ ~last.open /\ last.valid
    /\ last.ret = 0
    /\ plugins["a"] # None

\* C5: committing configuration for an unregistered plugin reports failure:
\* set_config(name, text) for an unregistered name returns failure, end() of a
\* transaction for an unregistered target returns failure, and in neither
\* case does a plugin's config change.
C5_CommitToUnregisteredFails ==
    ((last.op = "configure" /\ last.valid) \/ (last.op = "end" /\ last.open)) =>
        (last.pre = None =>
            /\ last.ret = 0
            /\ plugins[last.key[1]] = None
            /\ ~last.others)

\* C6: end() of a transaction for a registered plugin P whose commit the host
\* runs returns success and sets P's config to exactly the concatenation, in
\* call order, of the statements the successful add_* calls since begin(P)
\* appended, replacing the config P had and leaving the rest of P's entry;
\* a single add_server("pyright") gives exactly one
\* require('lspconfig').pyright.setup({}) statement.  A commit the host does
\* not run returns failure and leaves P's entry as it was.
C6_EndCommitsStatementsInOrder ==
    (last.op = "end" /\ last.open /\ last.pre # None) =>
        LET P == last.key[1]
        IN  /\ last.cmds = 1
            /\ ~last.others
            /\ last.ran =>
                  /\ last.ret = 1
                  /\ plugins[P] = Some([last.pre[1] EXCEPT !.config = Some(Flatten(last.stmts))])
                  /\ last.stmts = <<ServerStmt("pyright")>> =>
                        ConfigOf(P) = Some(<<"require('lspconfig').", "pyright", ".setup({});\n">>)
            /\ ~last.ran => (last.ret = 0 /\ plugins[P] = last.pre)

\* C6 witness: end() committed two different statements, in call order, over
\* a different, non-empty config.
C6_Witness ==
    /\ last.op = "end" /\ last.open /\ last.pre # None /\ last.ran
    /\ Len(last.stmts) = 2 /\ last.stmts[1] # last.stmts[2]
    /\ last.pre[1].config = Some(<<"x">>)
    /\ ConfigOf("a") = Some(last.stmts[1] \o last.stmts[2])

\* C7: for a registered plugin P, begin(P) followed by end() with no add_*
\* call in between, the host running the commit, succeeds and leaves P with a
\* config that is present and the empty string, whatever config P had.
C7_EmptyTransactionCommitsEmptyConfig ==
    (last.op = "end" /\ last.open /\ last.pre # None /\ last.stmts = << >> /\ last.ran) =>
        /\ last.ret = 1
        /\ ConfigOf(last.key[1]) # None
        /\ ConfigOf(last.key[1]) = Some(<< >>)

\* C7 witness: an end() right after begin replaced a non-empty config by the
\* empty string.
C7_Witness ==
    /\ last.op = "end" /\ last.open /\ last.pre # None /\ last.stmts = << >> /\ last.ran
    /\ last.pre[1].config \notin {None, Some(<< >>)}
    /\ ConfigOf("a") = Some(<< >>)
    /\ last.ret = 1

\* C8: begin("") returns failure, opens no transaction and discards none.
C8_BeginEmptyNameFails ==
    (last.op = "begin" /\ last.arg = Ptr("")) =>
        /\ last.ret = 0
        /\ ~last.slot

\* C9 as claimed: of two install_all() calls in succession, whatever the
\* outcome of the clones of the first, the second performs no clone.
C9_SecondInstallNeverClones ==
    (last.op = "install" /\ last.ran /\ last.prev.op = "install" /\ last.prev.ran) =>
        last.clones = {}

\* C9: of two install_all() calls in succession the second clones no plugin
\* whose directory exists: none that the first call cloned with success, and,
\* when the host ran the first call, only plugins whose clone in the first
\* call failed; when the host ran both, exactly those.
C9_SecondInstallClonesOnlyFailed ==
    (last.op = "install" /\ last.prev.op = "install") =>
        /\ last.clones \cap last.prev.cloned = {}
        /\ last.clones \cap disk \subseteq last.cloned
        /\ last.prev.ran => last.clones \subseteq (last.prev.clones \ last.prev.cloned)
        /\ (last.prev.ran /\ last.ran) => last.clones = last.prev.clones \ last.prev.cloned

\* C9 witness: the first call cloned one plugin with success and failed to
\* clone another; the second call cloned only the other.
C9_Witness ==
    /\ last.op = "install" /\ last.ran
    /\ last.prev.op = "install" /\ last.prev.ran
    /\ last.prev.cloned # {}
    /\ last.prev.clones \ last.prev.cloned # {}
    /\ last.clones = last.prev.clones \ last.prev.cloned

\* C10 as claimed: update_all() fetches nothing for a plugin whose entry has
\* no install_path, whatever directories exist on disk.
C10_UpdateSkipsPluginsWithoutPath ==
    last.op = "update" =>
        \A n \in Keys :
            (plugins[n] # None /\ PathOf(n) = None) => n \notin (last.pulls \cup last.clones)

\* C10: update_all() clones nothing, creates no directory and sets no
\* install_path, and pulls exactly the registered plugins whose directory
\* exists on disk, with or without install_path; it fetches nothing for a
\* plugin whose directory does not exist.
C10_UpdatePullsExistingDirectoriesOnly ==
    last.op = "update" =>
        /\ last.clones = {} /\ last.cloned = {}
        /\ ~last.others
        /\ last.pulls \subseteq disk
        /\ \A n \in Keys : (plugins[n] # None /\ n \notin disk) => n \notin last.pulls
        /\ last.ran => last.pulls = { n \in PluginNames : plugins[n] # None /\ n \in disk }
        /\ ~last.ran => last.pulls = {}

\* C10 witness: update_all() ran with two registered plugins, neither with an
\* install_path, one with a directory and one without, and pulled the one.
C10_Witness ==
    /\ last.op = "update" /\ last.ran
    /\ disk = {"a"}
    /\ plugins["a"] # None /\ plugins["b"] # None
    /\ PathOf("a") = None /\ PathOf("b") = None
    /\ last.pulls = {"a"}

----------------------------------------------------------------------------
(* Claims about load_plugin_configs *)

\* The warnings that the retry scheduled by call c for plugin n has emitted.
WarningsOf(c, n) == { i \in 1..Len(warnings) : warnings[i].call = c /\ warnings[i].name = n }

\* C11: a retry that load_plugin_configs scheduled for a plugin (its immediate
\* attempt failed) and that went through when it ran (module loaded, config
\* compiled and ran) has emitted no warning, in this and in every later
\* state.
C11_RetrySucceededNoWarning ==
    \A d \in done : d.out = "ok" => WarningsOf(d.call, d.name) = {}

\* A retry went through, and calls were made after it.
C11_Witness ==
    /\ \E d \in done : d.out = "ok"
    /\ last.op \in {"register", "configure", "apply"}
    /\ warnings # << >>

\* C12 as claimed: every retry that failed when it ran, be it at the
\* loadability check or while executing the config, has emitted exactly one
\* warning, and that warning names the plugin.
C12_RetryFailedOneWarning ==
    \A d \in done : d.out # "ok" => Cardinality(WarningsOf(d.call, d.name)) = 1

\* The (call, name) pairs of the closures in a queue.
QueueIds(q) == { <<q[i].call, q[i].name>> : i \in 1..Len(q) }

\* No two queued closures come from the same attempt, no queued closure has
\* run already, and no closure has run twice.
OneRetryPerAttempt(q, d) ==
    /\ \A i, j \in 1..Len(q) : (q[i].call = q[j].call /\ q[i].name = q[j].name) => i = j
    /\ \A r \in d : <<r.call, r.name>> \notin QueueIds(q)
    /\ \A r1, r2 \in d : (r1.call = r2.call /\ r1.name = r2.name) => r1 = r2

\* C13: a load_plugin_configs call appends to the host's queue one closure for
\* each plugin whose immediate attempt failed and for no other plugin; a
\* running closure leaves the queue and appends nothing; no other call
\* touches the length of the queue; so an attempt is followed by at most one
\* retry, and a plugin's config is tried at most twice per call.
C13_RetryIffImmediateFailedOnce ==
    [][ /\ last'.op = "apply" =>
              /\ Len(sched') = Len(sched) + Cardinality(last'.failed)
              /\ SubSeq(sched', 1, Len(sched)) = sched
              /\ { sched'[i].name : i \in (Len(sched) + 1)..Len(sched') } = last'.failed
              /\ \A i \in (Len(sched) + 1)..Len(sched') : sched'[i].call = attempts
              /\ last'.failed \subseteq { t[1] : t \in last'.tried }
        /\ last'.op = "retry" =>
              /\ sched # << >>
              /\ sched' = Tail(sched)
              /\ \E out \in {"ok", "noload", "noparse", "raise"} :
                     done' = done \cup { [call |-> Head(sched).call, name |-> Head(sched).name, out |-> out] }
        /\ last'.op \notin {"apply", "retry"} => Len(sched') = Len(sched) /\ done' = done
        /\ OneRetryPerAttempt(sched', done')
      ]_vars

\* One call tried two plugins; the attempt of one failed, the other's did not.
C13_Witness ==
    /\ last.op = "apply"
    /\ last.failed # {}
    /\ \E t \in last.tried : t[1] \notin last.failed
    /\ Len(sched) = Cardinality(last.failed)

\* C14: a load_plugin_configs call emits no warning and runs no retry, it only
\* appends to the queue; a warning is emitted only by a step of a scheduled
\* closure.
C14_FailureSurfacesOnlyFromRetry ==
    [][ /\ last'.op = "apply" =>
              /\ warnings' = warnings
              /\ done' = done
              /\ Len(sched') >= Len(sched) /\ SubSeq(sched', 1, Len(sched)) = sched
        /\ warnings' # warnings =>
              /\ last'.op = "retry"
              /\ sched # << >> /\ sched' = Tail(sched)
              /\ warnings' = Append(warnings, [name |-> Head(sched).name, err |-> Head(sched).err,
                                               call |-> Head(sched).call])
      ]_vars

\* A call has returned with a failed immediate attempt: its closure waits in
\* the queue and nothing has been reported.
C14_Witness ==
    /\ last.op = "apply"
    /\ last.failed # {}
    /\ sched # << >>
    /\ warnings = << >>

\* C15 as claimed: load_plugin_configs tries, and schedules a retry for, only
\* plugins whose config is a non-empty string.
C15_EmptyConfigNeverAttempted ==
    /\ last.op = "apply" => \A t \in last.tried : t[2] # << >>
    /\ \A i \in 1..Len(sched) : sched[i].icfg # << >>

\* C20 as claimed: a retry runs the config text its immediate attempt used.
C20_RetryUsesSameConfigText ==
    last.op = "retry" => last.retry[1].rcfg = last.retry[1].icfg

----------------------------------------------------------------------------
(* Claims about failures *)

\* C16: when the host runs install_plugins, every enabled plugin without a
\* directory gets its clone attempted, whichever of these clones fail, every
\* enabled plugin gets its path and its place on the runtime path, and the
\* loading pass runs; when the host runs update_plugins, every enabled plugin
\* with a directory gets its pull attempted, whichever of these pulls fail,
\* and the loading pass runs.
C16_FailedFetchDoesNotAbortBatch ==
    /\ (last.op = "install" /\ last.ran /\ GPluginsExists) =>
           /\ last.clones = { n \in EnabledNames : n \notin (disk \ last.cloned) }
           /\ \A n \in EnabledNames : PathOf(n) = Some(PluginPath(n)) /\ PluginPath(n) \in rtp
           /\ last.packload
    /\ (last.op = "update" /\ last.ran /\ GPluginsExists) =>
           /\ last.pulls = { n \in EnabledNames : n \in disk }
           /\ last.pulled \subseteq last.pulls
           /\ last.packload

\* One install tried two clones, of which exactly one failed.
C16_Witness ==
    /\ last.op = "install" /\ last.ran
    /\ Cardinality(last.clones) = 2
    /\ Cardinality(last.cloned) = 1

\* C17 as claimed: register_plugin with a non-null name and a non-null url
\* returns 1 and leaves an enabled entry under the name, whatever the
\* executor reports.
C17_RegisterSucceedsOnWellFormedInput ==
    (last.op = "register" /\ last.valid) =>
        /\ last.ret = 1
        /\ plugins[last.key[1]] # None
        /\ plugins[last.key[1]][1].enabled
        /\ plugins[last.key[1]][1].url \in Urls

----------------------------------------------------------------------------
(* Claims about the frame of the transaction calls *)

\* C18: plugin_config_begin and the four add_* functions hand no command to
\* the executor and change nothing but the transaction slot: the registry,
\* the disk, the runtime path, the host's queue and the warnings stay as they
\* are; and while a transaction is open and only add_* calls were made since
\* its begin, the entry of its target is the one it was at that begin.
C18_BeginAndAddTouchOnlyTheSlot ==
    [][ /\ last'.op \in ({"begin"} \cup AddOps) =>
              /\ last'.cmds = 0
              /\ ~last'.ran
              /\ plugins' = plugins
              /\ UNCHANGED <<disk, rtp, sched, warnings>>
        /\ (CURRENT_PLUGIN' # None /\ PLUGIN_CONFIG' # None /\ hist'.pure) => hist'.same
      ]_vars

\* A transaction for a registered plugin holds two statements and the
\* plugin's config is not that buffer.
C18_Witness ==
    /\ last.op \in AddOps /\ last.ret = 1
    /\ TxOpen /\ hist.pure
    /\ Len(hist.stmts) = 2
    /\ plugins[CURRENT_PLUGIN[1]] # None
    /\ ConfigOf(CURRENT_PLUGIN[1]) # PLUGIN_CONFIG

----------------------------------------------------------------------------
(* Claims about the host's queue *)

HasRun(c, n) == \E d \in done : d.call = c /\ d.name = n

\* C19: a closure that load_plugin_configs put on the queue stays there,
\* whatever is called, until the step that runs it; it is run, once; and
\* with the main loop taking from its queue, every queued closure is run
\* eventually.
C19_ScheduledRetryRunsExactlyOnce ==
    /\ [][ \A id \in QueueIds(sched) : id \in QueueIds(sched') \/ (last'.op = "retry" /\ HasRun(id[1], id[2])') ]_vars
    /\ [] OneRetryPerAttempt(sched, done)
    /\ \A c \in 0..MaxAttempts : \A n \in PluginNames :
           (<<c, n>> \in QueueIds(sched)) ~> HasRun(c, n)

\* A closure ran while a transaction was open and a later closure waits.
C19_Witness ==
    /\ last.op = "retry"
    /\ sched # << >>
    /\ TxOpen
    /\ done # {}

----------------------------------------------------------------------------
(* Claims about batches and the slot *)

\* C21: when the host runs the chunk of load_plugin_configs, the plugins it
\* tries are exactly the enabled plugins that have a config, each once,
\* for every order of pairs() and whichever of the attempts fail; in
\* particular every enabled plugin with a non-empty config is tried.
C21_EveryEligiblePluginTriedOnce ==
    (last.op = "apply" /\ last.ran) =>
        /\ { t[1] : t \in last.tried } = Eligible
        /\ Cardinality(last.tried) = Cardinality(Eligible)
        /\ \A t \in last.tried : ConfigOf(t[1]) = Some(t[2])
        /\ \A n \in PluginNames :
               (plugins[n] # None /\ plugins[n][1].enabled /\ ConfigOf(n) \notin {None, Some(<< >>)})
                   => \E t \in last.tried : t[1] = n

\* One call tried two plugins and both attempts failed.
C21_Witness ==
    /\ last.op = "apply" /\ last.ran
    /\ Cardinality(last.tried) = 2
    /\ Cardinality(last.failed) = 2

\* C22 as claimed: a plugin whose entry has a path has its directory on disk.
C22_PathOnlyIfInstalled ==
    \A n \in PluginNames : PathOf(n) # None => (n \in disk /\ PluginPath(n) \in rtp)

\* C23 as claimed: every install_plugins and every update_plugins call that
\* the host runs reaches the loading pass, also when nothing was ever
\* registered.
C23_LoadingPassOnEveryCall ==
    (last.op \in {"install", "update"} /\ last.ran) => last.packload

\* C24: an end called with a transaction open leaves both statics None,
\* whether the commit returned 1 or 0; an end or an add_* that follows it
\* returns 0, hands no command to the executor and changes neither the slot
\* nor the registry, so the buffer of a failed commit is gone.
C24_EndAlwaysClearsSlot ==
    [][ /\ (last'.op = "end" /\ last'.open) =>
               CURRENT_PLUGIN' = None /\ PLUGIN_CONFIG' = None
        /\ (last.op = "end" /\ last.open /\ last'.op \in ({"end"} \cup AddOps)) =>
               /\ last'.ret = 0 /\ last'.cmds = 0
               /\ UNCHANGED <<plugins, CURRENT_PLUGIN, PLUGIN_CONFIG>>
               /\ CURRENT_PLUGIN = None /\ PLUGIN_CONFIG = None
      ]_vars

\* The commit of a transaction with two statements failed, and its target's
\* config is not those statements.
C24_Witness ==
    /\ last.op = "end" /\ last.open /\ last.ret = 0
    /\ Len(last.stmts) = 2
    /\ ~TxOpen
    /\ ConfigOf(last.key[1]) # Some(Flatten(last.stmts))

\* C25: a call that was given a null pointer for an argument it reads
\* returns 0, hands no command to the executor and leaves the transaction
\* slot, the registry, the disk, the runtime path and the host's queue as
\* they are.  (plugin_config_add_keymap does not read its third parameter.)
C25_NullArgumentChangesNothing ==
    [][ ~last'.valid =>
            /\ last'.ret = 0 /\ last'.cmds = 0 /\ ~last'.ran
            /\ UNCHANGED <<plugins, CURRENT_PLUGIN, PLUGIN_CONFIG, disk, rtp, sched, warnings>>
      ]_vars

\* begin was given a null name while a transaction with statements was open,
\* and that transaction is still open with its statements.
C25_Witness ==
    /\ last.op = "begin" /\ ~last.valid /\ last.ret = 0
    /\ TxOpen
    /\ hist.stmts # << >>
    /\ PLUGIN_CONFIG = Some(Flatten(hist.stmts))

\* C26: a configure_plugin that returns 1, called directly or by end, leaves
\* every entry under another key as it is, leaves the disk and the runtime
\* path as they are, creates no entry under a key that has none, and of an
\* entry that exists changes the config field only.
C26_SetConfigChangesOnlyConfig ==
    [][ (last'.op \in {"configure", "end"} /\ last'.ret = 1 /\ last'.key # None) =>
            LET k == last'.key[1]
            IN  /\ \A n \in Keys : n # k => plugins'[n] = plugins[n]
                /\ { n \in Keys : plugins'[n] # None } = { n \in Keys : plugins[n] # None }
                /\ plugins[k] # None =>
                       plugins'[k][1] = [plugins[k][1] EXCEPT !.config = plugins'[k][1].config]
                /\ UNCHANGED <<disk, rtp>>
      ]_vars

\* A transaction was committed for an installed plugin that had a config,
\* next to another installed plugin with a config.
C26_Witness ==
    /\ last.op = "end" /\ last.ret = 1 /\ last.ran
    /\ last.pre # None
    /\ last.pre[1].config # None /\ last.pre[1].path # None
    /\ ConfigOf(last.key[1]) # last.pre[1].config
    /\ \E n \in PluginNames : n # last.key[1] /\ ConfigOf(n) # None /\ PathOf(n) # None

====
